---- MODULE Spec2Model ----
(***************************************************************************)
(* Announcement endpoints of the High School Management System API         *)
(* (src/src/backend/routers/announcements.py).                             *)
(*                                                                         *)
(* The announcement collection is a function from ObjectId to document.    *)
(* Every single-document store operation (find, find_one, insert_one,      *)
(* update_one, delete_one) is atomic; a handler that issues several of     *)
(* them (update_announcement) is a sequence of steps that other requests   *)
(* may interleave with, since FastAPI runs the handlers on a thread pool.  *)
(***************************************************************************)
EXTENDS Integers, Sequences, FiniteSets, TLC

VARIABLES
    store,      \* announcements_collection: ObjectId -> document
    nextId,     \* the next ObjectId insert_one assigns
    clock,      \* datetime.now(timezone.utc) as a timestamp (microsecond counter)
    today,      \* datetime.now(timezone.utc).date()
    frame,      \* per request thread: the position and locals of update_announcement
    ev          \* the request answered by the step just taken, with its response

vars == <<store, nextId, clock, today, frame, ev>>

----------------------------------------------------------------------------
(* Bounds *)

MaxIds   == 2     \* documents ever inserted
MaxClock == 3     \* timestamps ever taken (one per successful create / update lookup)
MaxDay   == 3     \* the last calendar day the model reaches

Procs == {1, 2}

----------------------------------------------------------------------------
(* Strings *)

Space == " "

RECURSIVE LStrip(_)
LStrip(s) == IF s # <<>> /\ Head(s) = Space THEN LStrip(Tail(s)) ELSE s

RECURSIVE RStrip(_)
RStrip(s) ==
    IF s # <<>> /\ s[Len(s)] = Space THEN RStrip(SubSeq(s, 1, Len(s) - 1)) ELSE s

\* str.strip()
Strip(s) == RStrip(LStrip(s))

----------------------------------------------------------------------------
(* Date strings and datetime.fromisoformat *)

\* A date argument: None, "", a string fromisoformat rejects, or an ISO string
\* with its calendar day, its time of day and whether it carries a UTC offset.
NoneDate  == [kind |-> "none",  day |-> 0, tod |-> 0, aware |-> FALSE]
EmptyDate == [kind |-> "empty", day |-> 0, tod |-> 0, aware |-> FALSE]
BadDate   == [kind |-> "bad",   day |-> 0, tod |-> 0, aware |-> FALSE]
Iso(d, t, a) == [kind |-> "iso", day |-> d, tod |-> t, aware |-> a]

\* Python truthiness of an Optional[str]
Truthy(s) == s.kind \notin {"none", "empty"}

\* datetime.fromisoformat(s) raises ValueError unless s is an ISO string
RaisesValueError(s) == s.kind # "iso"

\* datetime.fromisoformat(s), for a string it accepts
fromisoformat(s) == [day |-> s.day, tod |-> s.tod, aware |-> s.aware]

\* datetime.date()
DateOf(dt) == dt.day

\* a > b on datetimes raises TypeError when one is naive and the other aware
RaisesTypeError(a, b) == a.aware # b.aware

\* a > b on two comparable datetimes
DatetimeGt(a, b) == a.day > b.day \/ (a.day = b.day /\ a.tod > b.tod)

----------------------------------------------------------------------------
(* Identifiers *)

\* str(ObjectId): the hexadecimal rendering of an identifier
StrOfObjectId(oid) == "oid" \o ToString(oid)

ObjectIds == 1..MaxIds

MalformedId == "not-an-object-id"

\* is_valid_object_id: ObjectId(id_str) does not raise
is_valid_object_id(id_str) == \E oid \in ObjectIds : StrOfObjectId(oid) = id_str

\* ObjectId(id_str), for a well-formed id_str
ObjectId(id_str) == CHOOSE oid \in ObjectIds : StrOfObjectId(oid) = id_str

----------------------------------------------------------------------------
(* Teacher directory *)

\* teachers_collection: the usernames that resolve to a record
Teachers == {"principal"}

\* teachers_collection.find_one({"_id": teacher_username})
FindTeacher(teacher_username) == teacher_username \in Teachers

----------------------------------------------------------------------------
(* Requests and responses *)

Request(user, id, title, message, exp, start) ==
    [teacher_username |-> user, announcement_id |-> id, title |-> title,
     message |-> message, expiration_date |-> exp, start_date |-> start]

Response(status, detail) == [status |-> status, detail |-> detail]

Proceed == Response(0, "")

Unauthorized    == Response(401, "Authentication required")
InvalidId       == Response(400, "Invalid announcement ID")
MissingFields   == Response(400, "Title, message, and expiration_date are required")
InvalidFormat   == Response(400, "Invalid date format. Use YYYY-MM-DD")
StartAfterExp   == Response(400, "Start date cannot be after expiration date")
ExpirationPast  == Response(400, "Expiration date cannot be in the past")
NotFound        == Response(404, "Announcement not found")
InternalError   == Response(500, "Internal Server Error")
Created         == Response(200, "Announcement created successfully")
Updated         == Response(200, "Announcement updated successfully")
Deleted         == Response(200, "Announcement deleted successfully")
Listed          == Response(200, "")

\* "Verify teacher exists" (lines 110-112, 166-168, 238-240, 78-80)
VerifyTeacher(req) ==
    IF FindTeacher(req.teacher_username) THEN Proceed ELSE Unauthorized

\* "Validate ObjectId" (lines 171-172, 243-244)
ValidateObjectId(req) ==
    IF is_valid_object_id(req.announcement_id) THEN Proceed ELSE InvalidId

\* "Validate required fields" (lines 115-116, 175-176)
ValidateRequired(req) ==
    IF req.title = <<>> \/ req.message = <<>> \/ ~Truthy(req.expiration_date)
    THEN MissingFields ELSE Proceed

\* "Validate date formats" (lines 119-126, 179-186): the TypeError of a naive
\* against an aware datetime is not caught and leaves the handler
ValidateDates(req) ==
    IF RaisesValueError(req.expiration_date) THEN InvalidFormat
    ELSE IF ~Truthy(req.start_date) THEN Proceed
    ELSE IF RaisesValueError(req.start_date) THEN InvalidFormat
    ELSE IF RaisesTypeError(fromisoformat(req.start_date),
                            fromisoformat(req.expiration_date)) THEN InternalError
    ELSE IF DatetimeGt(fromisoformat(req.start_date),
                       fromisoformat(req.expiration_date)) THEN StartAfterExp
    ELSE Proceed

\* ValidateNotPast with <= for <: an expiration date of today is refused
ValidateNotPastNorToday(req, current_date) ==
    IF DateOf(fromisoformat(req.expiration_date)) <= current_date
    THEN ExpirationPast ELSE Proceed

\* "Validate expiration date is not in the past" (lines 129-130, 189-190)
ValidateNotPast(req, current_date) ==
    IF DateOf(fromisoformat(req.expiration_date)) < current_date
    THEN ExpirationPast ELSE Proceed

----------------------------------------------------------------------------
(* Documents and the store's single-document operations *)

NoTimestamp == 0
NoUser == ""

\* a document's keys other than _id; an absent start_date is NoneDate, an
\* absent updated_at / updated_by is NoTimestamp / NoUser
Document(title, message, exp, start, by, at) ==
    [title |-> title, message |-> message, expiration_date |-> exp,
     start_date |-> start, created_by |-> by, created_at |-> at,
     updated_at |-> NoTimestamp, updated_by |-> NoUser]

\* "start_date" in announcement
HasStartDate(announcement) == announcement.start_date.kind # "none"

\* "expiration_date" in announcement
HasExpirationDate(announcement) == announcement.expiration_date.kind # "none"

\* the document a cursor yields, with its _id
WithId(st, oid) == [oid |-> oid, doc |-> st[oid]]

\* list(announcements_collection.find()): the documents in natural order
RECURSIVE FindFrom(_, _)
FindFrom(st, oid) ==
    IF oid > MaxIds THEN <<>>
    ELSE IF oid \in DOMAIN st THEN <<WithId(st, oid)>> \o FindFrom(st, oid + 1)
    ELSE FindFrom(st, oid + 1)

Find(st) == FindFrom(st, 1)

\* announcements_collection.find_one({"_id": oid}) is not None
FindOne(st, oid) == oid \in DOMAIN st

\* the document after {"$unset": {"start_date": ""}}
UnsetStartDate(doc) == [doc EXCEPT !.start_date = NoneDate]

\* the document after {"$set": update_data}
SetFields(doc, update_data) ==
    [doc EXCEPT !.title = update_data.title,
                !.message = update_data.message,
                !.expiration_date = update_data.expiration_date,
                !.updated_at = update_data.updated_at,
                !.updated_by = update_data.updated_by,
                !.start_date = IF update_data.start_date.kind # "none"
                               THEN update_data.start_date ELSE @]

\* the collection after update_one({"_id": oid}, change): untouched when no
\* document matches
UpdateOne(st, oid, changed) ==
    IF oid \in DOMAIN st THEN [st EXCEPT ![oid] = changed] ELSE st

\* result.modified_count of update_one: the documents the update changed
ModifiedCount(st, oid, changed) ==
    IF oid \in DOMAIN st /\ st[oid] # changed THEN 1 ELSE 0

\* the collection after delete_one({"_id": oid})
DeleteOne(st, oid) == [o \in DOMAIN st \ {oid} |-> st[o]]

\* result.deleted_count of delete_one
DeletedCount(st, oid) == IF oid \in DOMAIN st THEN 1 ELSE 0

\* the collection after insert_one(doc) assigned it oid
InsertOne(st, oid, doc) == [o \in DOMAIN st \cup {oid} |-> IF o = oid THEN doc ELSE st[o]]

----------------------------------------------------------------------------
(* Reading *)

\* serialize_announcement: _id becomes the string id
serialize_announcement(found) ==
    [id |-> StrOfObjectId(found.oid), doc |-> found.doc]

\* is_announcement_active with >= for >: a record is inactive on its
\* expiration date
is_announcement_active_until(announcement, current_date) ==
    IF HasExpirationDate(announcement)
       /\ current_date >= DateOf(fromisoformat(announcement.expiration_date))
    THEN FALSE
    ELSE IF HasStartDate(announcement)
            /\ current_date < DateOf(fromisoformat(announcement.start_date))
    THEN FALSE
    ELSE TRUE

\* is_announcement_active, at current_date
is_announcement_active(announcement, current_date) ==
    IF HasExpirationDate(announcement)
       /\ current_date > DateOf(fromisoformat(announcement.expiration_date))
    THEN FALSE
    ELSE IF HasStartDate(announcement)
            /\ current_date < DateOf(fromisoformat(announcement.start_date))
    THEN FALSE
    ELSE TRUE

\* x placed in a sequence sorted by created_at, newest first, behind the
\* entries that are not older (list.sort is stable, also with reverse=True)
RECURSIVE InsertNewestFirst(_, _)
InsertNewestFirst(x, sorted) ==
    IF sorted = <<>> THEN <<x>>
    ELSE IF Head(sorted).doc.created_at >= x.doc.created_at
         THEN <<Head(sorted)>> \o InsertNewestFirst(x, Tail(sorted))
         ELSE <<x>> \o sorted

\* sort(key=created_at, reverse=True)
RECURSIVE SortNewestFirst(_)
SortNewestFirst(items) ==
    IF items = <<>> THEN <<>>
    ELSE InsertNewestFirst(items[Len(items)],
                           SortNewestFirst(SubSeq(items, 1, Len(items) - 1)))

\* the loop of get_active_announcements (lines 61-63)
RECURSIVE ActiveOf(_, _)
ActiveOf(found, current_date) ==
    IF found = <<>> THEN <<>>
    ELSE (IF is_announcement_active(Head(found).doc, current_date)
          THEN <<serialize_announcement(Head(found))>> ELSE <<>>)
         \o ActiveOf(Tail(found), current_date)

\* the loop of get_all_announcements with the filter of the public listing
RECURSIVE AnnotatedActiveOf(_, _)
AnnotatedActiveOf(found, current_date) ==
    IF found = <<>> THEN <<>>
    ELSE (IF is_announcement_active(Head(found).doc, current_date)
          THEN <<[id |-> serialize_announcement(Head(found)).id,
                  doc |-> Head(found).doc, is_active |-> TRUE]>>
          ELSE <<>>)
         \o AnnotatedActiveOf(Tail(found), current_date)

\* the loop of get_all_announcements (lines 86-90)
RECURSIVE AnnotatedOf(_, _)
AnnotatedOf(found, current_date) ==
    IF found = <<>> THEN <<>>
    ELSE <<[id |-> serialize_announcement(Head(found)).id,
            doc |-> Head(found).doc,
            is_active |-> is_announcement_active(Head(found).doc, current_date)]>>
         \o AnnotatedOf(Tail(found), current_date)

----------------------------------------------------------------------------
(* Validation, in the handlers' order *)

\* create_announcement, lines 109-130
CreateChecks(req, current_date) ==
    IF VerifyTeacher(req) # Proceed THEN VerifyTeacher(req)
    ELSE IF ValidateRequired(req) # Proceed THEN ValidateRequired(req)
    ELSE IF ValidateDates(req) # Proceed THEN ValidateDates(req)
    ELSE ValidateNotPast(req, current_date)

\* update_announcement with the identifier validated before the teacher
UpdateChecksIdFirst(req, current_date) ==
    IF ValidateObjectId(req) # Proceed THEN ValidateObjectId(req)
    ELSE IF VerifyTeacher(req) # Proceed THEN VerifyTeacher(req)
    ELSE IF ValidateRequired(req) # Proceed THEN ValidateRequired(req)
    ELSE IF ValidateDates(req) # Proceed THEN ValidateDates(req)
    ELSE ValidateNotPast(req, current_date)

\* update_announcement, lines 165-190
UpdateChecks(req, current_date) ==
    IF VerifyTeacher(req) # Proceed THEN VerifyTeacher(req)
    ELSE IF ValidateObjectId(req) # Proceed THEN ValidateObjectId(req)
    ELSE IF ValidateRequired(req) # Proceed THEN ValidateRequired(req)
    ELSE IF ValidateDates(req) # Proceed THEN ValidateDates(req)
    ELSE ValidateNotPast(req, current_date)

\* delete_announcement, lines 237-244
DeleteChecks(req) ==
    IF VerifyTeacher(req) # Proceed THEN VerifyTeacher(req)
    ELSE ValidateObjectId(req)

\* the announcement create_announcement builds (lines 133-142)
NewAnnouncement(req, now) ==
    Document(Strip(req.title), Strip(req.message), req.expiration_date,
             IF Truthy(req.start_date) THEN req.start_date ELSE NoneDate,
             req.teacher_username, now)

\* update_data without a fresh updated_at
UpdateDataStaleTimestamp(req, now) ==
    [title |-> Strip(req.title), message |-> Strip(req.message),
     expiration_date |-> req.expiration_date,
     updated_at |-> NoTimestamp, updated_by |-> req.teacher_username,
     start_date |-> IF Truthy(req.start_date) THEN req.start_date ELSE NoneDate]

\* update_data of update_announcement (lines 198-207)
UpdateData(req, now) ==
    [title |-> Strip(req.title), message |-> Strip(req.message),
     expiration_date |-> req.expiration_date,
     updated_at |-> now, updated_by |-> req.teacher_username,
     start_date |-> IF Truthy(req.start_date) THEN req.start_date ELSE NoneDate]
----------------------------------------------------------------------------
(* Inputs *)

Usernames == Teachers \cup {"intruder"}

IdStrings == {StrOfObjectId(oid) : oid \in ObjectIds} \cup {MalformedId}

\* <<title, message>>: the title missing, the message missing, both blank,
\* the message blank, both padded
Texts ==
    {<< <<>>, <<"m", " ">> >>, << <<" ", "x">>, <<>> >>, << <<" ">>, <<" ">> >>,
     << <<"x">>, <<" ">> >>, << <<" ", "x">>, <<"m", " ">> >>}

\* <<expiration_date, start_date>>: missing, unparseable, past, today, later;
\* the start omitted, empty, before, on the same day at a later time, after,
\* and with a UTC offset the expiration lacks
DatePairs ==
    {<<EmptyDate, NoneDate>>, <<BadDate, NoneDate>>, <<Iso(2, 0, FALSE), BadDate>>,
     <<Iso(1, 0, FALSE), NoneDate>>, <<Iso(2, 0, FALSE), NoneDate>>,
     <<Iso(2, 0, FALSE), EmptyDate>>, <<Iso(3, 0, FALSE), Iso(3, 0, FALSE)>>,
     <<Iso(2, 0, FALSE), Iso(3, 0, FALSE)>>, <<Iso(2, 0, FALSE), Iso(2, 1, FALSE)>>,
     <<Iso(1, 0, FALSE), Iso(2, 0, FALSE)>>, <<Iso(1, 0, FALSE), Iso(2, 0, TRUE)>>}

WriteRequests(users, ids, texts, dates) ==
    {Request(u, i, t[1], t[2], d[1], d[2]) :
        u \in users, i \in ids, t \in texts, d \in dates}

NoId == ""

\* the requests of the interleaved specification: one text, the date pairs
\* that pass validation on some day, one that is past and one that is inverted
RacingTexts == {<< <<" ", "x">>, <<"m", " ">> >>}

RacingDatePairs ==
    {<<Iso(1, 0, FALSE), NoneDate>>, <<Iso(2, 0, FALSE), NoneDate>>,
     <<Iso(3, 0, FALSE), NoneDate>>, <<Iso(3, 0, FALSE), Iso(3, 0, FALSE)>>,
     <<Iso(3, 0, FALSE), Iso(2, 0, FALSE)>>, <<Iso(2, 0, FALSE), Iso(3, 0, FALSE)>>}

CreateRequests == WriteRequests(Usernames, {NoId}, Texts, DatePairs)
UpdateRequests == WriteRequests(Usernames, IdStrings, Texts, DatePairs)
RacingCreateRequests == WriteRequests(Usernames, {NoId}, RacingTexts, RacingDatePairs)
RacingUpdateRequests == WriteRequests(Usernames, IdStrings, RacingTexts, RacingDatePairs)
DeleteRequests ==
    {Request(u, i, <<>>, <<>>, NoneDate, NoneDate) : u \in Usernames, i \in IdStrings}
ManageRequests ==
    {Request(u, NoId, <<>>, <<>>, NoneDate, NoneDate) : u \in Usernames}
PublicRequest == Request(NoUser, NoId, <<>>, <<>>, NoneDate, NoneDate)

----------------------------------------------------------------------------
(* State *)

\* find_one found nothing / has not run
NoDocument == Document(<<>>, <<>>, NoneDate, NoneDate, NoUser, NoTimestamp)

\* a request thread outside update_announcement's store operations; inside
\* them: its position, its arguments, `existing`, `update_data` and the
\* modified_count of its $unset
IdleFrame ==
    [pc |-> "idle", req |-> PublicRequest, existing |-> NoDocument,
     update_data |-> UpdateData(PublicRequest, NoTimestamp), unset_modified |-> 0]

\* a request, its response (status, detail, body) and, for an update that
\* reached the store, the document its find_one returned
Event(op, req, resp, body, existing) ==
    [op |-> op, req |-> req, resp |-> resp, body |-> body, existing |-> existing]

NoEvent == Event("none", PublicRequest, Proceed, <<>>, NoDocument)

Idle(p) == frame[p].pc = "idle"

\* the requests that passed validation and have not yet taken their timestamp
AwaitingTimestamp == Cardinality({p \in Procs : frame[p].pc = "find"})

Init ==
    /\ store = <<>>
    /\ nextId = 1
    /\ clock = 1
    /\ today = 2
    /\ frame = [p \in Procs |-> IdleFrame]
    /\ ev = NoEvent

----------------------------------------------------------------------------
(* Handlers *)

\* GET /announcements/
get_active_announcements(p) ==
    /\ Idle(p)
    /\ ev' = Event("list_active", PublicRequest, Listed,
                   SortNewestFirst(ActiveOf(Find(store), today)), NoDocument)
    /\ UNCHANGED <<store, nextId, clock, today, frame>>

\* GET /announcements/manage
get_all_announcements(p, req) ==
    /\ Idle(p)
    /\ ev' = IF VerifyTeacher(req) # Proceed
             THEN Event("manage", req, VerifyTeacher(req), <<>>, NoDocument)
             ELSE Event("manage", req, Listed,
                        SortNewestFirst(AnnotatedOf(Find(store), today)), NoDocument)
    /\ UNCHANGED <<store, nextId, clock, today, frame>>

\* POST /announcements/
create_announcement(p, req) ==
    /\ Idle(p)
    /\ LET failure == CreateChecks(req, today)
           announcement == NewAnnouncement(req, clock)
       IN IF failure # Proceed
          THEN /\ ev' = Event("create", req, failure, <<>>, NoDocument)
               /\ UNCHANGED <<store, nextId, clock>>
          ELSE /\ nextId <= MaxIds
               /\ clock + AwaitingTimestamp <= MaxClock
               /\ store' = InsertOne(store, nextId, announcement)
               /\ nextId' = nextId + 1
               /\ clock' = clock + 1
               /\ ev' = Event("create", req, Created,
                              <<serialize_announcement([oid |-> nextId, doc |-> announcement])>>,
                              NoDocument)
    /\ UNCHANGED <<today, frame>>

\* PUT /announcements/{announcement_id}, lines 165-190: the checks
update_announcement(p, req) ==
    /\ Idle(p)
    /\ LET failure == UpdateChecks(req, today)
       IN IF failure # Proceed
          THEN /\ ev' = Event("update", req, failure, <<>>, NoDocument)
               /\ UNCHANGED frame
          ELSE /\ clock + AwaitingTimestamp <= MaxClock
               /\ frame' = [frame EXCEPT ![p] = [IdleFrame EXCEPT !.pc = "find", !.req = req]]
               /\ ev' = NoEvent
    /\ UNCHANGED <<store, nextId, clock, today>>

\* lines 194-207: find_one, then update_data with its timestamp
update_find_one(p) ==
    /\ frame[p].pc = "find"
    /\ LET req == frame[p].req
           oid == ObjectId(req.announcement_id)
       IN IF ~FindOne(store, oid)
          THEN /\ ev' = Event("update", req, NotFound, <<>>, NoDocument)
               /\ frame' = [frame EXCEPT ![p] = IdleFrame]
               /\ UNCHANGED clock
          ELSE /\ frame' = [frame EXCEPT
                                ![p].pc = IF Truthy(req.start_date) THEN "set" ELSE "unset",
                                ![p].existing = store[oid],
                                ![p].update_data = UpdateData(req, clock)]
               /\ clock' = clock + 1
               /\ ev' = NoEvent
    /\ UNCHANGED <<store, nextId, today>>

\* lines 208-213: update_one with $unset
update_unset(p) ==
    /\ frame[p].pc = "unset"
    /\ LET oid == ObjectId(frame[p].req.announcement_id)
           changed == IF FindOne(store, oid) THEN UnsetStartDate(store[oid])
                      ELSE NoDocument
       IN /\ store' = UpdateOne(store, oid, changed)
          /\ frame' = [frame EXCEPT ![p].pc = "set",
                                    ![p].unset_modified = ModifiedCount(store, oid, changed)]
    /\ ev' = NoEvent
    /\ UNCHANGED <<nextId, clock, today>>

\* lines 215-223: update_one with $set, and the answer
update_set(p) ==
    /\ frame[p].pc = "set"
    /\ LET req == frame[p].req
           oid == ObjectId(req.announcement_id)
           changed == IF FindOne(store, oid)
                      THEN SetFields(store[oid], frame[p].update_data)
                      ELSE NoDocument
       IN /\ store' = UpdateOne(store, oid, changed)
          /\ ev' = Event("update", req,
                         IF ModifiedCount(store, oid, changed) = 0 THEN NotFound ELSE Updated,
                         <<>>, frame[p].existing)
    /\ frame' = [frame EXCEPT ![p] = IdleFrame]
    /\ UNCHANGED <<nextId, clock, today>>

\* DELETE /announcements/{announcement_id}
delete_announcement(p, req) ==
    /\ Idle(p)
    /\ LET failure == DeleteChecks(req)
       IN IF failure # Proceed
          THEN /\ ev' = Event("delete", req, failure, <<>>, NoDocument)
               /\ UNCHANGED store
          ELSE LET oid == ObjectId(req.announcement_id)
               IN /\ store' = DeleteOne(store, oid)
                  /\ ev' = Event("delete", req,
                                 IF DeletedCount(store, oid) = 0 THEN NotFound ELSE Deleted,
                                 <<>>, NoDocument)
    /\ UNCHANGED <<nextId, clock, today, frame>>

\* midnight UTC
NextDay ==
    /\ today < MaxDay
    /\ today' = today + 1
    /\ ev' = NoEvent
    /\ UNCHANGED <<store, nextId, clock, frame>>

\* the response leaves the server: ev describes only the step just taken
Deliver ==
    /\ ev # NoEvent
    /\ ev' = NoEvent
    /\ UNCHANGED <<store, nextId, clock, today, frame>>

Step(p, creates, updates) ==
    \/ get_active_announcements(p)
    \/ \E req \in ManageRequests : get_all_announcements(p, req)
    \/ \E req \in creates : create_announcement(p, req)
    \/ \E req \in updates : update_announcement(p, req)
    \/ update_find_one(p)
    \/ update_unset(p)
    \/ update_set(p)
    \/ \E req \in DeleteRequests : delete_announcement(p, req)

\* the handlers run on a thread pool: the store operations of two requests
\* interleave
Next ==
    \/ ev = NoEvent /\ \E p \in Procs : Step(p, RacingCreateRequests, RacingUpdateRequests)
    \/ ev = NoEvent /\ NextDay
    \/ Deliver

Spec == Init /\ [][Next]_vars

\* one request at a time, over every combination of arguments
NextSeq ==
    \/ ev = NoEvent /\ Step(1, CreateRequests, UpdateRequests)
    \/ ev = NoEvent /\ NextDay
    \/ Deliver

SpecSeq == Init /\ [][NextSeq]_vars

----------------------------------------------------------------------------
(* Properties *)

Range(seq) == {seq[i] : i \in 1..Len(seq)}

\* the active window of a stored record at day d, from the data model
InWindow(doc, d) ==
    /\ d <= doc.expiration_date.day
    /\ doc.start_date.kind = "none" \/ d >= doc.start_date.day

WriteOps == {"create", "update"}
GatedOps == {"manage", "create", "update", "delete"}

AllIdle == \A p \in Procs : Idle(p)

\* the store operations of the request the event answers began after its checks
ReachedStore(e) == e.existing # NoDocument

\* C1: a manage, create, update or delete request whose teacher_username is
\* not in the Teacher Directory is answered Unauthorized (401) whatever its
\* other arguments, the step that answers it leaves the store, the identifier
\* counter and every request thread as they were, and no request of an
\* unknown teacher is ever among those that go on to the store.
C1_UnauthorizedBeforeAnything ==
    [][ /\ (ev'.op \in GatedOps /\ ~FindTeacher(ev'.req.teacher_username))
            => /\ ev'.resp = Unauthorized
               /\ store' = store /\ nextId' = nextId /\ clock' = clock
               /\ frame' = frame
        /\ \A p \in Procs :
              frame'[p].pc # "idle" => FindTeacher(frame'[p].req.teacher_username)
      ]_vars

\* an update by an unknown teacher with a malformed id, no title and an
\* unparseable expiration date was answered 401 while records were stored
C1_Witness ==
    /\ ev.op = "update" /\ ev.resp = Unauthorized
    /\ ev.req.announcement_id = MalformedId
    /\ ev.req.title = <<>>
    /\ RaisesValueError(ev.req.expiration_date)
    /\ store # <<>>

\* C2: every stored announcement has an expiration_date, and a stored
\* start_date is never later than it (calendar dates).
C2_StartNotAfterExpiration ==
    \A oid \in DOMAIN store :
        /\ HasExpirationDate(store[oid])
        /\ HasStartDate(store[oid]) =>
              DateOf(fromisoformat(store[oid].start_date))
                 <= DateOf(fromisoformat(store[oid].expiration_date))

\* what list_active returns: the records inside their window, each once, as stored
ActiveListing ==
    LET inside == {oid \in DOMAIN store : InWindow(store[oid], today)}
    IN /\ {b.id : b \in Range(ev.body)} = {StrOfObjectId(oid) : oid \in inside}
       /\ Len(ev.body) = Cardinality(inside)
       /\ \A b \in Range(ev.body) : b.doc = store[ObjectId(b.id)]

\* C3: list_active returns exactly the stored records r with
\* today <= r.expiration_date and (r has no start_date or today >= r.start_date).
C3_ListActiveExactlyWindow == ev.op = "list_active" => ActiveListing

\* a listing that kept one record and left an expired one out
C3_Witness ==
    /\ ev.op = "list_active"
    /\ Len(ev.body) = 1
    /\ \E oid \in DOMAIN store : today > store[oid].expiration_date.day

\* what list_all_for_management returns: every record once, as stored, with
\* is_active equal to the window at the current date
ManageListing ==
    /\ {b.id : b \in Range(ev.body)} = {StrOfObjectId(oid) : oid \in DOMAIN store}
    /\ Len(ev.body) = Cardinality(DOMAIN store)
    /\ \A b \in Range(ev.body) :
          /\ b.doc = store[ObjectId(b.id)]
          /\ b.is_active = InWindow(b.doc, today)

\* C4: for an existing teacher, list_all_for_management returns every stored
\* record exactly once with is_active equal to the window at the current
\* date, and the call leaves the store as it was.
C4_ManageListsAllWithFlag ==
    [][ (ev'.op = "manage" /\ ev'.resp = Listed) => (store' = store /\ ManageListing') ]_vars

\* a management listing of two records, one active and one not
C4_Witness ==
    /\ ev.op = "manage" /\ ev.resp = Listed
    /\ Len(ev.body) = 2
    /\ \E a, b \in Range(ev.body) : a.is_active /\ ~b.is_active

\* an existing teacher, non-empty title and message, parseable dates
ParseableWrite(req) ==
    /\ FindTeacher(req.teacher_username)
    /\ req.title # <<>> /\ req.message # <<>>
    /\ ~RaisesValueError(req.expiration_date)
    /\ Truthy(req.start_date) => ~RaisesValueError(req.start_date)

\* no earlier check of the handler answers the request
ReachesExpirationCheck(op, req) ==
    /\ ParseableWrite(req)
    /\ op = "update" => is_valid_object_id(req.announcement_id)
    /\ Truthy(req.start_date) =>
          /\ ~RaisesTypeError(fromisoformat(req.start_date),
                              fromisoformat(req.expiration_date))
          /\ ~DatetimeGt(fromisoformat(req.start_date),
                         fromisoformat(req.expiration_date))

\* the step that runs the checks of a create or an update
ChecksStep == AllIdle /\ ev'.op \in WriteOps

C6_StartAfterExpirationByDate ==
    (/\ ev.op \in WriteOps
     /\ ParseableWrite(ev.req)
     /\ ev.op = "update" => is_valid_object_id(ev.req.announcement_id)
     /\ Truthy(ev.req.start_date)
     /\ ~RaisesTypeError(fromisoformat(ev.req.start_date),
                         fromisoformat(ev.req.expiration_date)))
    => (ev.resp = StartAfterExp
          <=> DateOf(fromisoformat(ev.req.start_date))
                 > DateOf(fromisoformat(ev.req.expiration_date)))

\* C7: with one request at a time, an update with start_date omitted that
\* found its record is answered success, never NotFound, and leaves the
\* record without a start_date; also when the record already held exactly
\* the fields of the request.
C7_OmittedStartDateIdempotent ==
    (ev.op = "update" /\ ReachedStore(ev) /\ ~Truthy(ev.req.start_date))
    => /\ ev.resp = Updated
       /\ ObjectId(ev.req.announcement_id) \in DOMAIN store
       /\ ~HasStartDate(store[ObjectId(ev.req.announcement_id)])

\* the repeated update: the record it found already held the request's
\* title, message, expiration_date and updated_by, and no start_date
C7_Witness ==
    /\ ev.op = "update" /\ ev.resp = Updated
    /\ ~Truthy(ev.req.start_date)
    /\ ev.existing.title = Strip(ev.req.title)
    /\ ev.existing.message = Strip(ev.req.message)
    /\ ev.existing.expiration_date = ev.req.expiration_date
    /\ ev.existing.updated_by = ev.req.teacher_username
    /\ ~HasStartDate(ev.existing)

\* C8: every stored announcement has a non-empty title and message without
\* leading or trailing whitespace.
C8_TitleAndMessageNonEmpty ==
    \A oid \in DOMAIN store :
        /\ store[oid].title # <<>> /\ store[oid].message # <<>>
        /\ Strip(store[oid].title) = store[oid].title
        /\ Strip(store[oid].message) = store[oid].message

\* C9: when the $set of an update lands, the record's title, message,
\* expiration_date, updated_by, updated_at and start_date (its value or its
\* absence) are all those of that update.
C9_LastWriteWins ==
    [][ \A p \in Procs :
          (frame[p].pc = "set" /\ frame'[p].pc = "idle" /\ ev'.resp = Updated)
          => LET doc == store'[ObjectId(frame[p].req.announcement_id)]
                 update_data == frame[p].update_data
             IN /\ doc.title = update_data.title
                /\ doc.message = update_data.message
                /\ doc.expiration_date = update_data.expiration_date
                /\ doc.updated_by = update_data.updated_by
                /\ doc.updated_at = update_data.updated_at
                /\ doc.start_date = update_data.start_date
      ]_vars

\* C10: a create, update or delete answered BadRequest, Unauthorized or
\* NotFound has changed nothing in the store: the answering step leaves it as
\* it was, and an update answered NotFound has not removed a start_date.
C10_FailedCallLeavesStore ==
    [][ (ev'.op \in {"create", "update", "delete"} /\ ev'.resp.status \in {400, 401, 404})
        => /\ store' = store
           /\ \A p \in Procs :
                 (frame[p].pc = "set" /\ frame'[p].pc = "idle")
                    => frame[p].unset_modified = 0
      ]_vars

====
